---- MODULE Spec2Model ----
(***************************************************************************)
(* GroupByResult of tcms/core/db.py as a state machine.                    *)
(*                                                                         *)
(* Python dicts live in a small heap (dicts), so that copying a mapping    *)
(* and aliasing it are different things.  A GroupByResult object is its    *)
(* four fields: _data (a dict id), _total_name, _total_result and _meta.   *)
(* Attribute names are modelled as the sequence of their pieces between    *)
(* underscores: "A_percent" is <<"A", "percent">>.                         *)
(***************************************************************************)
EXTENDS Integers, Sequences, FiniteSets, TLC

VARIABLES dicts, data, total_name, total_result, meta, lastOp, ret

vars == <<dicts, data, total_name, total_result, meta, lastOp, ret>>

\* ---------------------------------------------------------------- bounds

\* Integer subtotals are drawn from 0..MaxVal.
MaxVal == 1

\* The keys entries are stored under (none contains an underscore).
Keys == {"A", "B"}

\* The objects: a root result and one result that may be nested in it.
Root == "root"
Child == "child"
Objs == {Root, Child}

\* Dict ids: the caller's mapping handed to the root's constructor, and the
\* dicts the two constructors allocate.
CallerDict == "caller"
DictIds == {CallerDict, Root, Child}

\* ---------------------------------------------------------------- values

None == [t |-> "none"]
Absent == [t |-> "absent"]
IntVal(n) == [t |-> "int", v |-> n]
\* A value that is neither int/long nor a GroupByResult: a str.
StrVal == [t |-> "str"]
GbrVal(o) == [t |-> "gbr", ref |-> o]
FloatVal(n, d) == [t |-> "float", num |-> n, den |-> d]
Raised(e) == [t |-> "error", exc |-> e]

IsInt(x) == x.t = "int"
IsGbr(x) == x.t = "gbr"
IsError(x) == x.t = "error"

Ints == {IntVal(n) : n \in 0..MaxVal}

\* What may be stored in an object's entries: the root may hold the child,
\* the child holds no nested result (two levels of GROUP BY).
ValuesOf(o) == Ints \cup {StrVal} \cup (IF o = Root THEN {GbrVal(Child)} ELSE {})

DictsOf(vals, o) == [Keys -> vals[o] \cup {Absent}]

\* total_name: None (written NoName), or the key of the rollup row.
NoName == "<None>"
TotalNames == {NoName, "B"}

EmptyDict == [k \in Keys |-> Absent]

\* ------------------------------------------------------- container proxy

\* self._data of object o, as a mapping.
Entries(o) == dicts[data[o]]

KeysOf(d) == {k \in Keys : d[k] # Absent}

\* __contains__
Contains(o, key) == key \in Keys /\ Entries(o)[key] # Absent

\* __len__
Len_(o) == Cardinality(KeysOf(Entries(o)))

\* the empty property
empty(o) == Len_(o) = 0

\* __getitem__: strict indexing, KeyError when the key is absent.
getitem(o, key) == IF Contains(o, key) THEN Entries(o)[key] ELSE Raised("KeyError")

\* ----------------------------------------------------------------- total

\* total += x, for the running int total and what the entry contributes.
Add(total, x) ==
    IF IsError(total) THEN total
    ELSE IF IsError(x) THEN x
    ELSE IF IsInt(x) THEN IntVal(total.v + x.v)
    ELSE Raised("TypeError")

RECURSIVE get_total_in(_, _), SumEntries(_, _, _, _)

\* Mutant: the loop adds every entry that is no nested result, int or not.
SumEntries_unchecked(ds, d, ks, total) ==
    IF ks = {} THEN total
    ELSE LET name == CHOOSE k \in ks : TRUE
             subtotal == d[name]
             next == IF IsGbr(subtotal)
                     THEN Add(total, get_total_in(ds, subtotal.ref))
                     ELSE Add(total, subtotal)
         IN  IF IsError(next) THEN next
             ELSE SumEntries(ds, d, ks \ {name}, next)

\* Mutant: _get_total sums the entries even when a total name is given.
get_total_in_summing(ds, o) ==
    LET d == ds[data[o]]
    IN  IF KeysOf(d) = {} THEN IntVal(0)
        ELSE SumEntries(ds, d, KeysOf(d), IntVal(0))

\* The for loop of _get_total over the entries d, from the running total.
\* The entries are visited in some order; with one nested result the first
\* error met is the same in every order.
SumEntries(ds, d, ks, total) ==
    IF ks = {} THEN total
    ELSE LET name == CHOOSE k \in ks : TRUE
             subtotal == d[name]
             next == IF IsInt(subtotal) THEN Add(total, subtotal)
                     ELSE IF IsGbr(subtotal)
                          THEN Add(total, get_total_in(ds, subtotal.ref))
                     ELSE total
         IN  IF IsError(next) THEN next
             ELSE SumEntries(ds, d, ks \ {name}, next)

\* _get_total of object o, the heap being ds.
get_total_in(ds, o) ==
    LET d == ds[data[o]]
    IN  IF KeysOf(d) = {} THEN IntVal(0)
        ELSE IF total_name[o] # NoName
             THEN IF d[total_name[o]] # Absent THEN d[total_name[o]]
                  ELSE Raised("KeyError")
        ELSE SumEntries(ds, d, KeysOf(d), IntVal(0))

\* Mutant: the total property reads the total cached by the constructor.
get_total_cached(o) == total_result[o]

\* The total property.
get_total(o) == get_total_in(dicts, o)

\* ------------------------------------------------------------ percentage

\* _get_percent: the total is the one computed by the constructor.
get_percent(o, key) ==
    LET total == total_result[o]
        subtotal == getitem(o, key)
    IN  IF IsError(subtotal) THEN subtotal
        ELSE IF total = IntVal(0) THEN FloatVal(0, 1)
        ELSE IF IsInt(subtotal) /\ IsInt(total)
             THEN FloatVal(subtotal.v * 100, total.v)
        ELSE Raised("TypeError")

\* name.endswith('_percent')
EndsWithPercent(name) == Len(name) >= 2 /\ name[Len(name)] = "percent"

\* __getattr__, called for a name that is no real attribute of the object.
getattr(o, name) ==
    IF EndsWithPercent(name)
    THEN IF Len(name) # 2 THEN Raised("ValueError")
         ELSE IF Contains(o, name[1]) THEN get_percent(o, name[1])
         ELSE IntVal(0)
    ELSE IntVal(0)

\* ------------------------------------------------------------ leaf count

\* _meta.get('value_leaf_count') is None or an int.
\* The orders in which iteritems may yield the keys S: every sequence of the
\* keys of S without repetition.
KeySeqs == UNION {[1..n -> Keys] : n \in 0..Cardinality(Keys)}
Perms(S) == {p \in KeySeqs : Len(p) = Cardinality(S) /\ {p[i] : i \in 1..Len(p)} = S}

RECURSIVE leaf_values_count(_, _, _, _, _), LeafLoop(_, _, _, _, _, _)

\* The for loop of leaf_values_count over the keys ks still to visit, with
\* the running count and the _meta of every object so far.
LeafLoop(o, value_in_row, ks, count, m, ord) ==
    IF ks = <<>> THEN [ret |-> count, meta |-> m]
    ELSE LET value == Entries(o)[Head(ks)]
         IN  IF IsGbr(value)
             THEN LET r == leaf_values_count(value.ref, value_in_row, FALSE, m, ord)
                  IN  LeafLoop(o, value_in_row, Tail(ks), count + r.ret.v, r.meta, ord)
             ELSE LeafLoop(o, value_in_row, Tail(ks),
                           IF value_in_row THEN 1 ELSE count + 1, m, ord)

\* Mutant: leaf_values_count never reads the cached count.
leaf_values_count_uncached(o, value_in_row, refresh, m, ord) ==
    LET r == LeafLoop(o, value_in_row, ord[o], 0, m, ord)
    IN  [ret |-> IntVal(r.ret), meta |-> [r.meta EXCEPT ![o] = IntVal(r.ret)]]

\* leaf_values_count(value_in_row, refresh) on object o: what it returns and
\* the _meta of every object afterwards.
leaf_values_count(o, value_in_row, refresh, m, ord) ==
    LET necessary_to_count == IF refresh THEN TRUE ELSE m[o] = None
    IN  IF ~necessary_to_count THEN [ret |-> m[o], meta |-> m]
        ELSE LET r == LeafLoop(o, value_in_row, ord[o], 0, m, ord)
             IN  [ret |-> IntVal(r.ret), meta |-> [r.meta EXCEPT ![o] = IntVal(r.ret)]]

\* --------------------------------------------------------- construction

\* Mutant: the constructor stores the mapping it is given.
NewDict_aliased(o, src) == src

\* dict(data): the constructor stores a new dict (the one of id o), the copy
\* of the mapping src.
NewDict(o, src) == o

NoOp == [op |-> "init"]

\* __init__ of the child, then of the root; both constructors return (the
\* _get_total call of neither raises).  kept: the caller keeps the mapping it
\* passed to the root's constructor, otherwise it was a temporary.  The entries
\* are drawn from vals and the total names from names.
Construct(kept, vals, names) ==
    \E cd \in DictsOf(vals, Child), rd \in DictsOf(vals, Root), tn \in [Objs -> names] :
        /\ dicts = [i \in DictIds |-> IF i = Child THEN cd
                                      ELSE IF i = Root \/ kept THEN rd
                                      ELSE EmptyDict]
        /\ data = [o \in Objs |-> NewDict(o, IF o = Root THEN CallerDict ELSE o)]
        /\ total_name = tn
        /\ total_result = [o \in Objs |-> get_total_in(dicts, o)]
        /\ \A o \in Objs : ~IsError(total_result[o])
        /\ meta = [o \in Objs |-> None]
        /\ lastOp = NoOp
        /\ ret = None

Init == Construct(FALSE, [o \in Objs |-> ValuesOf(o)], TotalNames)

\* ------------------------------------------------------------- operations

\* __setitem__
SetItem(o, key, value) ==
    /\ dicts' = [dicts EXCEPT ![data[o]][key] = value]
    /\ lastOp' = [op |-> "set", obj |-> o]
    /\ ret' = None
    /\ UNCHANGED <<data, total_name, total_result, meta>>

\* __delitem__: KeyError, and no change, when the key is absent.
DelItem(o, key) ==
    /\ dicts' = [dicts EXCEPT ![data[o]][key] = Absent]
    /\ lastOp' = [op |-> "del", obj |-> o]
    /\ ret' = IF Contains(o, key) THEN None ELSE Raised("KeyError")
    /\ UNCHANGED <<data, total_name, total_result, meta>>

\* Reading the total property.
GetTotal(o) ==
    /\ lastOp' = [op |-> "total", obj |-> o]
    /\ ret' = get_total(o)
    /\ UNCHANGED <<dicts, data, total_name, total_result, meta>>

ProbeNames ==
    {<<"A">>, <<"Z">>, <<"A", "percent">>, <<"B", "percent">>,
     <<"Z", "percent">>, <<"A", "B", "percent">>}

\* Reading attribute name of object o.
GetAttr(o, name) ==
    /\ lastOp' = [op |-> "getattr", obj |-> o, name |-> name]
    /\ ret' = getattr(o, name)
    /\ UNCHANGED <<dicts, data, total_name, total_result, meta>>

\* Calling leaf_values_count; the dicts yield their entries in some order.
LeafValuesCount(o, value_in_row, refresh) ==
    \E rootOrd \in Perms(KeysOf(Entries(Root))), childOrd \in Perms(KeysOf(Entries(Child))) :
        LET ord == [x \in Objs |-> IF x = Root THEN rootOrd ELSE childOrd]
            r == leaf_values_count(o, value_in_row, refresh, meta, ord)
        IN  /\ meta' = r.meta
            /\ ret' = r.ret
            /\ lastOp' = [op |-> "leaf_values_count", obj |-> o,
                          value_in_row |-> value_in_row, refresh |-> refresh]
            /\ UNCHANGED <<dicts, data, total_name, total_result>>

\* The caller stores into the mapping it passed to the root's constructor.
CallerSet(key, value) ==
    /\ dicts' = [dicts EXCEPT ![CallerDict][key] = value]
    /\ lastOp' = [op |-> "caller_set"]
    /\ ret' = None
    /\ UNCHANGED <<data, total_name, total_result, meta>>

\* The caller deletes a key of the mapping it passed.
CallerDel(key) ==
    /\ dicts[CallerDict][key] # Absent
    /\ dicts' = [dicts EXCEPT ![CallerDict][key] = Absent]
    /\ lastOp' = [op |-> "caller_del"]
    /\ ret' = None
    /\ UNCHANGED <<data, total_name, total_result, meta>>

Next ==
    \/ \E o \in Objs, k \in Keys : \E v \in ValuesOf(o) : SetItem(o, k, v)
    \/ \E o \in Objs, k \in Keys : DelItem(o, k)
    \/ \E o \in Objs : GetTotal(o)

Spec == Init /\ [][Next]_vars

\* The same with attribute lookups.
NextProbe ==
    \/ \E o \in Objs, k \in Keys : \E v \in ValuesOf(o) : SetItem(o, k, v)
    \/ \E o \in Objs, k \in Keys : DelItem(o, k)
    \/ \E o \in Objs : GetTotal(o)
    \/ \E o \in Objs, name \in ProbeNames : GetAttr(o, name)

SpecProbe == Init /\ [][NextProbe]_vars

\* Leaf counting: the entries are a leaf or the nested result.
LeafValuesOf(o) == IF o = Root THEN {IntVal(1), StrVal, GbrVal(Child)} ELSE {IntVal(1)}

InitLeaf == Construct(FALSE, [o \in Objs |-> LeafValuesOf(o)], {NoName})

NextLeaf ==
    \/ \E o \in Objs, k \in Keys : \E v \in LeafValuesOf(o) : SetItem(o, k, v)
    \/ \E o \in Objs, k \in Keys : DelItem(o, k)
    \/ \E o \in Objs, value_in_row \in BOOLEAN, refresh \in BOOLEAN :
            LeafValuesCount(o, value_in_row, refresh)

SpecLeaf == InitLeaf /\ [][NextLeaf]_vars

\* The caller keeps the mapping it constructed the root from.
AliasValuesOf(o) == IF o = Root THEN Ints \cup {GbrVal(Child)} ELSE {IntVal(MaxVal)}

InitAlias == Construct(TRUE, [o \in Objs |-> AliasValuesOf(o)], TotalNames)

NextAlias ==
    \/ \E k \in Keys : \E v \in AliasValuesOf(Root) : SetItem(Root, k, v)
    \/ \E k \in Keys : DelItem(Root, k)
    \/ \E k \in Keys : \E v \in AliasValuesOf(Root) : CallerSet(k, v)
    \/ \E k \in Keys : CallerDel(k)

SpecAlias == InitAlias /\ [][NextAlias]_vars

\* ------------------------------------------------------------ properties

\* The objects nested in o, o included.
RECURSIVE Under(_)
Under(o) == {o} \cup UNION {Under(Entries(o)[k].ref) : k \in {x \in Keys : IsGbr(Entries(o)[x])}}

\* The values stored at any depth under o that are no nested result.
RECURSIVE LeafSum(_), LeafCount(_)
LeafSum(o) ==
    LET d == Entries(o)
        Part(k) == IF IsInt(d[k]) THEN d[k].v
                   ELSE IF IsGbr(d[k]) THEN LeafSum(d[k].ref) ELSE 0
        RECURSIVE Over(_)
        Over(ks) == IF ks = {} THEN 0
                    ELSE LET k == CHOOSE x \in ks : TRUE IN Part(k) + Over(ks \ {k})
    IN  Over(Keys)

LeafCount(o) ==
    LET d == Entries(o)
        Part(k) == IF d[k] = Absent THEN 0
                   ELSE IF IsGbr(d[k]) THEN LeafCount(d[k].ref) ELSE 1
        RECURSIVE Over(_)
        Over(ks) == IF ks = {} THEN 0
                    ELSE LET k == CHOOSE x \in ks : TRUE IN Part(k) + Over(ks \ {k})
    IN  Over(Keys)

NoTotalNameUnder(o) == \A x \in Under(o) : total_name[x] = NoName
AllNumericOrNested(o) ==
    \A x \in Under(o), k \in Keys : Entries(x)[k] = Absent \/ IsInt(Entries(x)[k]) \/ IsGbr(Entries(x)[k])

IsProbe == lastOp.op = "getattr"
IsTotal == lastOp.op = "total"
IsCount == lastOp.op = "leaf_values_count"

\* C1: probing <K>_percent for a key K that is a direct numeric entry
\* returns 100 * value(K) / total() for the total of the current entries,
\* and 0.0 when that total is 0.
C1_PercentOfCurrentTotal ==
    (/\ IsProbe
     /\ Len(lastOp.name) = 2 /\ lastOp.name[2] = "percent"
     /\ Contains(lastOp.obj, lastOp.name[1])
     /\ IsInt(Entries(lastOp.obj)[lastOp.name[1]])
     /\ IsInt(get_total_in(dicts, lastOp.obj)))
    => LET value == Entries(lastOp.obj)[lastOp.name[1]].v
           total == get_total_in(dicts, lastOp.obj).v
       IN  /\ ret.t = "float"
           /\ IF total = 0 THEN ret.num = 0
              ELSE ret.num * total = 100 * value * ret.den

\* C2: with no total name, total() is the sum of all leaf values reachable
\* now, whatever set and remove did since construction.
C2_TotalIsSumOfLeaves ==
    (IsTotal /\ NoTotalNameUnder(lastOp.obj) /\ AllNumericOrNested(lastOp.obj))
    => ret = IntVal(LeafSum(lastOp.obj))

\* C2 witness: total() was read on a root that holds the nested result and
\* leaves, and returned a sum that is not the one computed at construction.
C2_Witness ==
    /\ IsTotal /\ lastOp.obj = Root
    /\ NoTotalNameUnder(Root) /\ AllNumericOrNested(Root)
    /\ Entries(Root)["A"] = GbrVal(Child) /\ IsInt(Entries(Root)["B"])
    /\ ret = IntVal(LeafSum(Root)) /\ LeafSum(Child) > 0
    /\ ret # total_result[Root]

\* C3: with a total name set, total() of a non-empty result is the value
\* stored under that name (as strict indexing gives it), no entry being
\* summed; total() of an empty result is 0.
C3_TotalNameOverrides ==
    (IsTotal /\ total_name[lastOp.obj] # NoName)
    => ret = IF empty(lastOp.obj) THEN IntVal(0)
             ELSE getitem(lastOp.obj, total_name[lastOp.obj])

\* C3 witness: total() returned the rollup value, which differs from the sum
\* of the entries.
C3_Witness ==
    /\ IsTotal /\ lastOp.obj = Root /\ total_name[Root] = "B"
    /\ Entries(Root)["A"] = IntVal(1) /\ Entries(Root)["B"] = IntVal(0)
    /\ ret = IntVal(0)

\* C3 witness, empty case: a total name is set, the result has no entries.
C3_WitnessEmpty ==
    IsTotal /\ total_name[lastOp.obj] # NoName /\ empty(lastOp.obj) /\ ret = IntVal(0)

\* C4: probing any name returns a number and never raises.
C4_ProbeNeverFaults == IsProbe => ret.t \in {"int", "float"}

\* C5: attribute-style lookup of a subtotal name returns the subtotal stored
\* under it when the name is an entry, and 0 only when it is not.
C5_AttributeReturnsSubtotal ==
    (IsProbe /\ Len(lastOp.name) = 1)
    => ret = IF Contains(lastOp.obj, lastOp.name[1])
             THEN Entries(lastOp.obj)[lastOp.name[1]] ELSE IntVal(0)

\* The value of some direct entry of o is neither numeric nor a nested result.
HasInvalidEntry(o) == \E k \in Keys : Entries(o)[k] = StrVal

C6_CachedCountReturned ==
    [][\A o \in Objs :
          meta[o] # None =>
             /\ (lastOp'.op = "leaf_values_count" /\ lastOp'.obj = o /\ ~lastOp'.refresh)
                => (ret' = meta[o] /\ meta'[o] = meta[o])
             /\ meta'[o] # meta[o]
                => (lastOp'.op = "leaf_values_count" /\ lastOp'.obj = o /\ lastOp'.refresh)]_vars

\* C6 witness: a call without refresh returned the cached count although the
\* entries now hold another number of leaves.
C6_Witness ==
    /\ IsCount /\ ~lastOp.refresh /\ ~lastOp.value_in_row
    /\ ret = meta[lastOp.obj]
    /\ ret # IntVal(LeafCount(lastOp.obj))
    /\ \A x \in Under(lastOp.obj) : x # lastOp.obj => meta[x] = None

\* C9: a freshly computed count is the same in every iteration order: what a
\* call with refresh returned is what the count over the same entries gives
\* in each order.  (The nested results such a call read or filled now hold
\* the cached counts it used.)
C9_CountOrderIndependent ==
    (IsCount /\ lastOp.refresh)
    => \A r \in Perms(KeysOf(Entries(Root))), c \in Perms(KeysOf(Entries(Child))) :
          ret = leaf_values_count(lastOp.obj, lastOp.value_in_row, TRUE, meta,
                                  [x \in Objs |-> IF x = Root THEN r ELSE c]).ret

\* C10: a call with refresh and value_in_row false returns the number of
\* non-nested values now stored at every depth under the node.
C10_RefreshCountsCurrentLeaves ==
    (IsCount /\ lastOp.refresh /\ ~lastOp.value_in_row)
    => ret = IntVal(LeafCount(lastOp.obj))

\* C8: construction copies the caller's mapping: set and remove on the
\* result leave the caller's mapping as it is, and the caller's changes to
\* its mapping leave the result's entries, size, total and leaf count as
\* they are.  (No operation assigns _data or _total_name, so the total after
\* the step is the total over the heap after the step.)
C8_NoAliasing ==
    [][/\ lastOp'.op \in {"set", "del"} => dicts'[CallerDict] = dicts[CallerDict]
       /\ lastOp'.op \in {"caller_set", "caller_del"}
          => /\ Entries(Root)' = Entries(Root)
             /\ Len_(Root)' = Len_(Root)
             /\ get_total_in(dicts', Root) = get_total_in(dicts, Root)
             /\ LeafCount(Root)' = LeafCount(Root)]_vars

\* C8 witness: the result and the caller's mapping have both been changed
\* and differ.
C8_Witness ==
    /\ lastOp.op = "caller_del"
    /\ dicts[CallerDict] = EmptyDict
    /\ Entries(Root)["A"] = GbrVal(Child) /\ Entries(Root)["B"] = IntVal(1)
    /\ get_total(Root) # total_result[Root]

====
